---- MODULE Spec2Model ----
(***************************************************************************)
(* FocusGuard client AI engine: BehaviorClassifier (rule/model hybrid) and *)
(* ViolationDetector (frame debounce, duration gate, cooldown), together   *)
(* with the ProctorEngine frame loop that drives them.                     *)
(*                                                                         *)
(* Units.  time.time() values are integers counted in ticks of             *)
(* 1/TicksPerSecond second.  Gaze components and probabilities are         *)
(* integers counted in hundredths (0.25 is 25, 0.9 is 90).  Angles are     *)
(* whole degrees.  Python's None is the integer None, which is no label,   *)
(* no time, no probability.                                                *)
(***************************************************************************)
EXTENDS Integers, Sequences, FiniteSets, TLC

VARIABLES
    det,          \* the ViolationDetector instance (its attributes)
    now,          \* time.time() as read by the most recent call
    ret,          \* what the most recent detect() since construction/reset returned
    last_op,      \* the most recent operation on the detector
    calls,        \* history: detect() calls that classified a frame since construction/reset
    emitted,      \* history: violations returned since construction/reset
    ever_emitted, \* history: a violation was returned at some time in the detector's life
    run_label,    \* history: the label of every frame since construction/reset, Mixed if they differ
    last_normal,  \* history: time of the latest NORMAL frame since construction/reset
    last_emit,    \* history: time of the latest violation since construction/reset
    engine,       \* ProctorEngine.run: "running", or "crashed" once an exception left the loop
    clf,          \* the BehaviorClassifier under construction/use: its pc and its model attribute
    model_file,   \* the model file on disk: "ok", "absent" or "corrupt"
    inp,          \* the arguments of the most recent classifier call
    out,          \* what the most recent classifier call returned or raised
    peers,        \* the ViolationDetector instances of two monitored subjects
    solo,         \* history: for each subject, a detector fed that subject's calls only
    peer_ret,     \* the most recent call on a subject's detector and what it returned
    geo,          \* the most recent GeometryCalculator call: its landmark list and result
    ac,           \* the AntiCheatMonitor, the threads reporting to it and its callback's list
    ws,           \* the WebSocketClient, its tasks and the connection it holds
    shown,        \* the most recent get_current_state() call and what it returned
    exam,         \* the server's exam row and the rows of its participants
    manager       \* the server's ConnectionManager and the student connections it serves

vars == <<det, now, ret, last_op, calls, emitted, ever_emitted, run_label,
          last_normal, last_emit, engine, clf, model_file, inp, out,
          peers, solo, peer_ret, geo, ac, ws, shown, exam, manager>>

detVars == <<det, now, ret, last_op, calls, emitted, ever_emitted, run_label,
             last_normal, last_emit>>
clfVars == <<clf, model_file, inp, out>>
peerVars == <<peers, solo, peer_ret>>
\* the state of the components beside the single detector, its classifier and
\* its frame loop
auxVars == <<peerVars, geo, ac, ws, shown, exam, manager>>

---------------------------------------------------------------------------
(* Constants of the program *)

None == -1

NORMAL == 0
LOOKING_LEFT == 1
LOOKING_RIGHT == 2
HEAD_DOWN == 3
TALKING == 4

VIOLATION_FRAME_COUNT == 5

TicksPerSecond == 10

\* self._COOLDOWN_SECONDS = 2.0
COOLDOWN_SECONDS == 2 * TicksPerSecond

\* Config.VIOLATION_DURATION_SECONDS, the default of violation_duration
VIOLATION_DURATION_SECONDS == 2 * TicksPerSecond

\* pitch > 20
PitchDownThreshold == 20
\* h_gaze < -0.25, h_gaze > 0.25, v_gaze < -0.3
GazeLeftThreshold == -25
GazeRightThreshold == 25
GazeDownThreshold == -30
\* the confidence used when the label is outside the probability array: 0.9
DefaultConfidence == 90
\* the number of features the trained model takes
NumFeatures == 5

\* self.max_reconnect_attempts = 10
max_reconnect_attempts == 10

\* time.time() at the construction of the detector: some positive time
Epoch == TicksPerSecond

---------------------------------------------------------------------------
(* Bounds of the model *)

\* the clock stops advancing MaxSeconds seconds after Epoch
MaxSeconds == 6
\* detect() calls modelled after a construction or a reset
MaxCalls == 16
\* with two subjects the clock stops advancing MaxPeerSeconds seconds after Epoch
MaxPeerSeconds == 4
\* the violations recorded for one participant
MaxRecorded == 4
\* the websockets opened to the server's /ws endpoint
NumConnections == 3
\* the violation messages kept in one StudentSession
MaxMessages == 1
\* threads reporting to one AntiCheatMonitor, and reports made by each
NumThreads == 3
ReportsPerThread == 2

---------------------------------------------------------------------------
(* Python helpers *)

\* truth value of an Optional[float]: None and 0.0 are false
Truthy(x) == x # None /\ x # 0

\* list.count
Count(seq, x) == Cardinality({i \in 1..Len(seq) : seq[i] = x})

\* set(list)
SetOf(seq) == {seq[i] : i \in 1..Len(seq)}

\* numpy.argmax: the first index (0-based) of the largest entry
ArgMax(p) ==
    CHOOSE i \in 0..(Len(p) - 1) :
        /\ \A j \in 0..(Len(p) - 1) : p[j + 1] <= p[i + 1]
        /\ \A j \in 0..(i - 1) : p[j + 1] < p[i + 1]

NoExc == "none"
ModelNotLoaded == "RuntimeError: Model not loaded"
InvalidFeatureShape == "ValueError: X has a different number of features"
ModelFileNotFound == "FileNotFoundError: Model file not found"
ModelLoadFailed == "RuntimeError: Failed to load model"
NoNdim == "AttributeError: 'tuple' object has no attribute 'ndim'"
PnPError == "cv2.error: solvePnP needs as many image points as model points"
IndexError == "IndexError: list index out of range"
CallbackError == "Exception raised by on_violation"

Loaded == 1

---------------------------------------------------------------------------
(* BehaviorClassifier *)

\* self.model.predict(features): the fitted forest returns the class of the
\* largest probability and rejects a sample of the wrong width
model_predict(features, proba) ==
    IF features.n # NumFeatures
    THEN [exc |-> InvalidFeatureShape, label |-> None]
    ELSE [exc |-> NoExc, label |-> ArgMax(proba)]

\* predict with the rules tried before the model is checked
predict_rules_first(self, features, iris_gaze, proba) ==
    IF features.type # "ndarray"
    THEN [exc |-> NoNdim, label |-> None]
    ELSE IF features.pitch > PitchDownThreshold
    THEN [exc |-> NoExc, label |-> HEAD_DOWN]
    ELSE IF iris_gaze # <<>> /\ iris_gaze[1] < GazeLeftThreshold
    THEN [exc |-> NoExc, label |-> LOOKING_LEFT]
    ELSE IF iris_gaze # <<>> /\ iris_gaze[1] > GazeRightThreshold
    THEN [exc |-> NoExc, label |-> LOOKING_RIGHT]
    ELSE IF iris_gaze # <<>> /\ iris_gaze[2] < GazeDownThreshold
    THEN [exc |-> NoExc, label |-> HEAD_DOWN]
    ELSE IF self.model = None
    THEN [exc |-> ModelNotLoaded, label |-> None]
    ELSE model_predict(features, proba)

\* predict with the gaze rules tried before the pitch rule
predict_gaze_first(self, features, iris_gaze, proba) ==
    IF self.model = None
    THEN [exc |-> ModelNotLoaded, label |-> None]
    ELSE IF features.type # "ndarray"
    THEN [exc |-> NoNdim, label |-> None]
    ELSE IF iris_gaze # <<>> /\ iris_gaze[1] < GazeLeftThreshold
    THEN [exc |-> NoExc, label |-> LOOKING_LEFT]
    ELSE IF iris_gaze # <<>> /\ iris_gaze[1] > GazeRightThreshold
    THEN [exc |-> NoExc, label |-> LOOKING_RIGHT]
    ELSE IF iris_gaze # <<>> /\ iris_gaze[2] < GazeDownThreshold
    THEN [exc |-> NoExc, label |-> HEAD_DOWN]
    ELSE IF features.pitch > PitchDownThreshold
    THEN [exc |-> NoExc, label |-> HEAD_DOWN]
    ELSE model_predict(features, proba)

\* predict taking a gaze inside the thresholds for a centred gaze: NORMAL
predict_centered_normal(self, features, iris_gaze, proba) ==
    IF self.model = None
    THEN [exc |-> ModelNotLoaded, label |-> None]
    ELSE IF features.type # "ndarray"
    THEN [exc |-> NoNdim, label |-> None]
    ELSE IF features.pitch > PitchDownThreshold
    THEN [exc |-> NoExc, label |-> HEAD_DOWN]
    ELSE IF iris_gaze # <<>> /\ iris_gaze[1] < GazeLeftThreshold
    THEN [exc |-> NoExc, label |-> LOOKING_LEFT]
    ELSE IF iris_gaze # <<>> /\ iris_gaze[1] > GazeRightThreshold
    THEN [exc |-> NoExc, label |-> LOOKING_RIGHT]
    ELSE IF iris_gaze # <<>> /\ iris_gaze[2] < GazeDownThreshold
    THEN [exc |-> NoExc, label |-> HEAD_DOWN]
    ELSE IF iris_gaze # <<>>
    THEN [exc |-> NoExc, label |-> NORMAL]
    ELSE model_predict(features, proba)

\* predict with every threshold comparison inclusive
predict_inclusive(self, features, iris_gaze, proba) ==
    IF self.model = None
    THEN [exc |-> ModelNotLoaded, label |-> None]
    ELSE IF features.type # "ndarray"
    THEN [exc |-> NoNdim, label |-> None]
    ELSE IF features.pitch >= PitchDownThreshold
    THEN [exc |-> NoExc, label |-> HEAD_DOWN]
    ELSE IF iris_gaze # <<>> /\ iris_gaze[1] <= GazeLeftThreshold
    THEN [exc |-> NoExc, label |-> LOOKING_LEFT]
    ELSE IF iris_gaze # <<>> /\ iris_gaze[1] >= GazeRightThreshold
    THEN [exc |-> NoExc, label |-> LOOKING_RIGHT]
    ELSE IF iris_gaze # <<>> /\ iris_gaze[2] <= GazeDownThreshold
    THEN [exc |-> NoExc, label |-> HEAD_DOWN]
    ELSE model_predict(features, proba)

\* A feature vector is [type, n, pitch]: a numpy array of n floats whose
\* first is the pitch, or (type "tuple") some other object without .ndim.
\* The other features reach the program only through the model, whose answer
\* for the vector is proba.  iris_gaze is <<h, v>>, or <<>> for None.
predict(self, features, iris_gaze, proba) ==
    IF self.model = None
    THEN [exc |-> ModelNotLoaded, label |-> None]
    ELSE IF features.type # "ndarray"
    THEN [exc |-> NoNdim, label |-> None]
    ELSE IF features.pitch > PitchDownThreshold
    THEN [exc |-> NoExc, label |-> HEAD_DOWN]
    ELSE IF iris_gaze # <<>> /\ iris_gaze[1] < GazeLeftThreshold
    THEN [exc |-> NoExc, label |-> LOOKING_LEFT]
    ELSE IF iris_gaze # <<>> /\ iris_gaze[1] > GazeRightThreshold
    THEN [exc |-> NoExc, label |-> LOOKING_RIGHT]
    ELSE IF iris_gaze # <<>> /\ iris_gaze[2] < GazeDownThreshold
    THEN [exc |-> NoExc, label |-> HEAD_DOWN]
    ELSE model_predict(features, proba)

predict_proba(self, features, proba) ==
    IF self.model = None
    THEN [exc |-> ModelNotLoaded, probabilities |-> <<>>]
    ELSE IF features.type # "ndarray"
    THEN [exc |-> NoNdim, probabilities |-> <<>>]
    ELSE IF features.n # NumFeatures
    THEN [exc |-> InvalidFeatureShape, probabilities |-> <<>>]
    ELSE [exc |-> NoExc, probabilities |-> proba]

\* the confidence taken to be the model's largest probability, whatever the
\* final label
predict_with_confidence_of_model(self, features, iris_gaze, proba) ==
    LET p == predict(self, features, iris_gaze, proba)
        q == predict_proba(self, features, proba)
    IN  IF p.exc # NoExc
        THEN [exc |-> p.exc, label |-> None, confidence |-> None]
        ELSE IF q.exc # NoExc
        THEN [exc |-> q.exc, label |-> None, confidence |-> None]
        ELSE [exc |-> NoExc,
              label |-> p.label,
              confidence |-> q.probabilities[ArgMax(q.probabilities) + 1]]

\* lines 144-152: the label of predict(), the probabilities of predict_proba()
\* and, as confidence, probabilities[label] if label < len(probabilities),
\* else 0.9
predict_with_confidence(self, features, iris_gaze, proba) ==
    LET p == predict(self, features, iris_gaze, proba)
        q == predict_proba(self, features, proba)
    IN  IF p.exc # NoExc
        THEN [exc |-> p.exc, label |-> None, confidence |-> None]
        ELSE IF q.exc # NoExc
        THEN [exc |-> q.exc, label |-> None, confidence |-> None]
        ELSE [exc |-> NoExc,
              label |-> p.label,
              confidence |-> IF p.label < Len(q.probabilities)
                             THEN q.probabilities[p.label + 1]
                             ELSE DefaultConfidence]

\* BehaviorClassifier.__init__ up to the call of load_model: self.model = None
BehaviorClassifier_init == [pc |-> "new", model |-> None]

\* load_model: the instance after it and the exception it raises.  A missing
\* file raises FileNotFoundError, a file joblib cannot load RuntimeError; the
\* exception leaves __init__, so no instance is handed to the caller.
load_model(self, file) ==
    IF file = "absent"
    THEN [self |-> [self EXCEPT !.pc = "raised"], exc |-> ModelFileNotFound]
    ELSE IF file = "corrupt"
    THEN [self |-> [self EXCEPT !.pc = "raised"], exc |-> ModelLoadFailed]
    ELSE [self |-> [self EXCEPT !.pc = "ready", !.model = Loaded], exc |-> NoExc]

---------------------------------------------------------------------------
(* ViolationDetector *)

NoViolation == [is_violation |-> FALSE, label |-> None, confidence |-> None]

\* the constructor with the frame threshold hard-coded instead of taken from
\* its argument
ViolationDetector_init_fixed3(classifier, violation_threshold, violation_duration) ==
    [classifier |-> classifier,
     violation_threshold |-> 3,
     violation_duration |-> violation_duration,
     frame_buffer |-> <<>>,
     max_buffer_size |-> 3,
     current_violation_label |-> None,
     violation_start_time |-> None,
     violation_reported |-> FALSE,
     cooldown_until |-> None,
     COOLDOWN_SECONDS |-> COOLDOWN_SECONDS]

ViolationDetector_init(classifier, violation_threshold, violation_duration) ==
    [classifier |-> classifier,
     violation_threshold |-> violation_threshold,
     violation_duration |-> violation_duration,
     frame_buffer |-> <<>>,
     max_buffer_size |-> violation_threshold,
     current_violation_label |-> None,
     violation_start_time |-> None,
     violation_reported |-> FALSE,
     cooldown_until |-> None,
     COOLDOWN_SECONDS |-> COOLDOWN_SECONDS]

\* the dominant behaviour taken to be the label of more than half of the buffer
current_behavior_majority(frame_buffer, violation_threshold) ==
    LET violation_labels == SelectSeq(frame_buffer, LAMBDA l : l # NORMAL)
        cands == {l \in SetOf(violation_labels) :
                    2 * Count(violation_labels, l) > violation_threshold}
    IN  IF Len(frame_buffer) >= violation_threshold /\ cands # {}
        THEN CHOOSE l \in cands : TRUE
        ELSE None

\* lines 219-233 of detect(): the dominant behaviour of a full buffer.
\* max(set(xs), key=xs.count) returns the first label of the largest count
\* in the set's iteration order, which for small ints is ascending.
current_behavior(frame_buffer, violation_threshold) ==
    LET violation_labels == SelectSeq(frame_buffer, LAMBDA l : l # NORMAL)
    IN  IF Len(violation_labels) >= violation_threshold
        THEN LET cands == SetOf(violation_labels)
                 dominant_label ==
                     CHOOSE l \in cands :
                         /\ \A m \in cands :
                                Count(violation_labels, m) <= Count(violation_labels, l)
                         /\ \A m \in cands :
                                Count(violation_labels, m) = Count(violation_labels, l)
                                    => l <= m
             IN  IF Count(violation_labels, dominant_label) >= violation_threshold
                 THEN dominant_label
                 ELSE None
        ELSE None

\* the push that drops the new label, not the oldest, on overflow
push_frame_keep_oldest(self, label) ==
    IF Len(self.frame_buffer) >= self.max_buffer_size
    THEN self.frame_buffer
    ELSE Append(self.frame_buffer, label)

\* lines 210-213 of detect(): append, then drop the oldest label on overflow
push_frame(self, label) ==
    LET appended == Append(self.frame_buffer, label)
    IN  IF Len(appended) > self.max_buffer_size THEN Tail(appended) ELSE appended

\* the cooldown check left out
in_cooldown_never(self, t) == FALSE

\* the cooldown check with <= for <
in_cooldown_inclusive(self, t) ==
    Truthy(self.cooldown_until) /\ t <= self.cooldown_until

\* line 236: if self._cooldown_until and now < self._cooldown_until
in_cooldown(self, t) ==
    Truthy(self.cooldown_until) /\ t < self.cooldown_until

\* the duration check without the reported guard
duration_reached_unguarded(self, t) ==
    /\ Truthy(self.violation_start_time)
    /\ t - self.violation_start_time >= self.violation_duration

\* the duration check with > for >=
duration_reached_strict(self, t) ==
    /\ Truthy(self.violation_start_time)
    /\ ~self.violation_reported
    /\ t - self.violation_start_time > self.violation_duration

\* lines 243-245: the tracked behaviour has lasted long enough and was not
\* reported yet
duration_reached(self, t) ==
    /\ Truthy(self.violation_start_time)
    /\ ~self.violation_reported
    /\ t - self.violation_start_time >= self.violation_duration

\* the report that forgets to set the reported flag
report_unflagged(self, t) ==
    [self EXCEPT !.cooldown_until = t + self.COOLDOWN_SECONDS]

\* lines 247-248: mark the occurrence reported and start the cooldown
report(self, t) ==
    [self EXCEPT !.violation_reported = TRUE,
                 !.cooldown_until = t + self.COOLDOWN_SECONDS]

\* the start of a new tracking that leaves the reported flag as it is
start_tracking_keeps_reported(self, behavior, t) ==
    [self EXCEPT !.current_violation_label = behavior,
                 !.violation_start_time = t]

\* lines 252-254: a different violation behaviour started
start_tracking(self, behavior, t) ==
    [self EXCEPT !.current_violation_label = behavior,
                 !.violation_start_time = t,
                 !.violation_reported = FALSE]

\* the clearing that leaves the start time as it is
clear_tracking_keeps_start(self) ==
    [self EXCEPT !.current_violation_label = None,
                 !.violation_reported = FALSE]

\* the clearing that leaves the reported flag as it is
clear_tracking_keeps_reported(self) ==
    [self EXCEPT !.current_violation_label = None,
                 !.violation_start_time = None]

\* lines 257-259: normal behaviour, reset everything
clear_tracking(self) ==
    [self EXCEPT !.current_violation_label = None,
                 !.violation_start_time = None,
                 !.violation_reported = FALSE]

\* detect(features, iris_gaze) at time.time() = t; the result holds the
\* detector after the call, the label classified, the returned tuple and the
\* exception raised (the detector is untouched when the classifier raises)
detect(self, features, iris_gaze, proba, t) ==
    LET c == predict_with_confidence(self.classifier, features, iris_gaze, proba)
    IN  IF c.exc # NoExc
        THEN [self |-> self, exc |-> c.exc, label |-> None, ret |-> NoViolation]
        ELSE
        LET s1 == [self EXCEPT !.frame_buffer = push_frame(self, c.label)]
            cb == current_behavior(s1.frame_buffer, s1.violation_threshold)
            quiet(s) == [self |-> s, exc |-> NoExc, label |-> c.label, ret |-> NoViolation]
        IN  IF Len(s1.frame_buffer) < s1.violation_threshold
            THEN quiet(s1)
            ELSE IF in_cooldown(s1, t)
            THEN quiet(s1)
            ELSE IF cb # None
            THEN IF s1.current_violation_label = cb
                 THEN IF duration_reached(s1, t)
                      THEN [self |-> report(s1, t),
                            exc |-> NoExc,
                            label |-> c.label,
                            ret |-> [is_violation |-> TRUE,
                                     label |-> cb,
                                     confidence |-> c.confidence]]
                      ELSE quiet(s1)
                 ELSE quiet(start_tracking(s1, cb, t))
            ELSE quiet(clear_tracking(s1))

\* the reset that forgets the cooldown
reset_keeps_cooldown(self) ==
    [self EXCEPT !.frame_buffer = <<>>,
                 !.current_violation_label = None,
                 !.violation_start_time = None,
                 !.violation_reported = FALSE]

reset(self) ==
    [self EXCEPT !.frame_buffer = <<>>,
                 !.current_violation_label = None,
                 !.violation_start_time = None,
                 !.violation_reported = FALSE,
                 !.cooldown_until = None]

\* shared/constants.py: VIOLATION_MESSAGES
VIOLATION_MESSAGES ==
    [l \in {NORMAL, LOOKING_LEFT, LOOKING_RIGHT, HEAD_DOWN, TALKING} |->
        CASE l = NORMAL -> "Normal"
          [] l = LOOKING_LEFT -> "Looking Left"
          [] l = LOOKING_RIGHT -> "Looking Right"
          [] l = HEAD_DOWN -> "Head Down"
          [] l = TALKING -> "Talking"]

\* the description that also forgets the tracking it describes
get_current_state_clearing(self, t) ==
    [self |-> clear_tracking(self),
     state |-> IF Len(self.frame_buffer) = 0
               THEN [text |-> "No data", timer |-> <<>>]
               ELSE [text |-> VIOLATION_MESSAGES[self.frame_buffer[Len(self.frame_buffer)]],
                     timer |-> <<>>]]

\* get_current_state() at time.time() = t: the detector after the call and
\* the string returned, as its message and the <<elapsed, required>> pair of
\* its "(elapsed / required)" suffix (<<>> when there is no suffix)
get_current_state(self, t) ==
    [self |-> self,
     state |->
        IF Len(self.frame_buffer) = 0
        THEN [text |-> "No data", timer |-> <<>>]
        ELSE
        LET recent_label == self.frame_buffer[Len(self.frame_buffer)]
            text == IF recent_label \in DOMAIN VIOLATION_MESSAGES
                    THEN VIOLATION_MESSAGES[recent_label]
                    ELSE "Unknown"
            elapsed == t - self.violation_start_time
            remaining == IF self.violation_duration - elapsed > 0
                         THEN self.violation_duration - elapsed
                         ELSE 0
        IN  IF /\ self.current_violation_label # None
               /\ self.violation_start_time # None
               /\ ~self.violation_reported
               /\ remaining > 0
            THEN [text |-> text, timer |-> <<elapsed, self.violation_duration>>]
            ELSE [text |-> text, timer |-> <<>>]]

---------------------------------------------------------------------------
(* The detector driven frame by frame *)

\* a classifier whose construction succeeded
LoadedClassifier == load_model(BehaviorClassifier_init, "ok").self

\* ProctorEngine.run: ViolationDetector(self.classifier,
\*     violation_threshold=Config.VIOLATION_FRAME_COUNT)
NewDetector ==
    ViolationDetector_init(LoadedClassifier, VIOLATION_FRAME_COUNT,
                           VIOLATION_DURATION_SECONDS)

Mixed == None - 1

\* the frames fed to the detector: a feature vector, the iris gaze passed
\* with it (<<>> when the caller passes none) and the probabilities the model
\* gives to that vector
Frame(pitch, iris_gaze, proba) ==
    [features |-> [type |-> "ndarray", n |-> NumFeatures, pitch |-> pitch],
     iris_gaze |-> iris_gaze,
     proba |-> proba]

\* a normal frame, a frame the model calls LOOKING_LEFT and a frame the
\* pitch rule calls HEAD_DOWN, each with and without an iris gaze
Frames ==
    {Frame(0, <<>>, <<70, 10, 10, 10>>),
     Frame(0, <<0, 0>>, <<10, 60, 20, 10>>),
     Frame(25, <<30, 0>>, <<20, 10, 30, 40>>)}

\* the time between two calls, in ticks: none (many frames within one tick),
\* a second, or two seconds
Steps == {0, TicksPerSecond, 2 * TicksPerSecond}

InitHistory ==
    /\ ret = NoViolation
    /\ calls = 0
    /\ emitted = 0
    /\ run_label = None
    /\ last_normal = None
    /\ last_emit = None

\* no classifier call made yet
NoFrame == Frame(0, <<>>, <<>>)
NoOut == [op |-> "none", exc |-> NoExc, label |-> None, confidence |-> None,
          probabilities |-> <<>>]

\* the monitored subjects, each with a ViolationDetector of its own
Instances == {1, 2}

\* one list object made once and used by every instance
list_object_shared(i) == 1

\* self.frame_buffer = []: the list object an instance appends to, a fresh
\* list made by each run of __init__ (and of reset)
list_object(i) == i

\* the detectors of the subjects, built on one classifier
InitPeers ==
    /\ peers = [i \in Instances |-> NewDetector]
    /\ solo = [i \in Instances |-> NewDetector]
    /\ peer_ret = [who |-> 0, op |-> "init", ret |-> NoViolation,
                   solo_ret |-> NoViolation]

\* no GeometryCalculator call made yet
NoGeo == [op |-> "none", landmarks |-> [len |-> 0, pitch |-> 0, iris |-> <<0, 0>>,
                                        proba |-> <<>>],
          exc |-> NoExc, gaze |-> <<>>, pitch |-> None]

\* the threads of test_concurrent_violations
Threads == 1..NumThreads

\* CheatEvent members reported by the monitor
CheatEvents == {"window_focus_lost", "minimize_detected"}

\* no CheatViolation built
NoCheat == [event_type |-> "none", timestamp |-> None, details |-> None]

\* no AntiCheatMonitor constructed yet, the reporting threads not started,
\* the list the callback appends to empty
InitAntiCheat ==
    ac = [on_violation |-> "no monitor",
          threads |-> [t \in Threads |->
                          [pc |-> "idle", done |-> 0, request |-> NoCheat,
                           violation |-> NoCheat, invoked |-> 0, raised |-> 0,
                           args_ok |-> TRUE, exc |-> NoExc]],
          violations |-> 0]

\* WebSocketClient.__init__, before run(); link is the state of the
\* connection behind self.websocket, recv the state of the receive_loop task
InitWebSocket ==
    ws = [should_run |-> FALSE,
          is_connected |-> FALSE,
          websocket |-> "none",
          max_reconnect_attempts |-> max_reconnect_attempts,
          reconnect_attempts |-> 0,
          last_heartbeat |-> "none",
          run |-> "new",
          recv |-> "none",
          link |-> "none",
          pending_loss |-> FALSE,
          reconnects |-> 0,
          step |-> [by |-> "init", outcome |-> "none"]]

\* the students known to the server
Students == {1, 2}

\* database.py, ExamParticipant: no row for the student, and the defaults of
\* a new row (violation_count 0, is_flagged False)
NoParticipant == [joined |-> FALSE, violation_count |-> 0, is_flagged |-> FALSE]
NewParticipant == [joined |-> TRUE, violation_count |-> 0, is_flagged |-> FALSE]

\* no request answered yet
NoResponse == [route |-> "none", user |-> 0, status_code |-> 0,
               violation_count |-> None, is_flagged |-> FALSE]

\* the database before an exam is created: no ExamSession row, no
\* ExamParticipant row, no Violation row
NoExam ==
    [status |-> "none",
     max_violations |-> None,
     participants |-> [u \in Students |-> NoParticipant],
     violations |-> [u \in Students |-> 0],
     response |-> NoResponse]

\* the websockets the server's /ws endpoint is called with
Connections == 1..NumConnections

\* the student_id a CONNECT message may carry: data.get("student_id") is
\* whatever JSON value the peer sent, the empty string included
StudentIds == {"S1", "S2", ""}

\* student_id = None, the endpoint's local before a CONNECT message is read
NoStudent == "None"

\* no entry under a key of active_connections
NoConnection == 0

\* no StudentSession under a key of sessions
NoSession == [exists |-> FALSE, is_online |-> FALSE, last_heartbeat |-> "none",
              violations |-> 0]

\* ConnectionManager.__init__: both dicts empty; and no websocket accepted yet
InitManager ==
    manager = [active_connections |-> [s \in StudentIds |-> NoConnection],
               sessions |-> [s \in StudentIds |-> NoSession],
               handlers |-> [c \in Connections |->
                                [pc |-> "idle", student_id |-> NoStudent]]]

\* get_current_state() not called yet
NoState == [at |-> None, text |-> "none", timer |-> <<>>]

InitAux ==
    /\ InitPeers
    /\ geo = NoGeo
    /\ InitAntiCheat
    /\ InitWebSocket
    /\ shown = NoState
    /\ exam = NoExam
    /\ InitManager

InitClf ==
    /\ clf = LoadedClassifier
    /\ model_file = "ok"
    /\ inp = NoFrame
    /\ out = NoOut

Init ==
    /\ det = NewDetector
    /\ now = Epoch
    /\ last_op = "init"
    /\ ever_emitted = FALSE
    /\ engine = [app |-> "client/main.py", pc |-> "running", exc |-> NoExc,
                 status |-> "Monitoring"]
    /\ InitHistory
    /\ InitClf
    /\ InitAux

\* one detect() call with frame f, dt ticks after the previous call
DetectCall(f, dt, cap) ==
    LET t == now + dt
        r == detect(det, f.features, f.iris_gaze, f.proba, t)
    IN  /\ t <= Epoch + MaxSeconds * TicksPerSecond
        /\ r.exc = NoExc
        /\ now' = t
        /\ det' = r.self
        /\ ret' = r.ret
        /\ last_op' = "detect"
        /\ calls' = IF calls < cap THEN calls + 1 ELSE calls
        /\ emitted' = IF r.ret.is_violation THEN emitted + 1 ELSE emitted
        /\ ever_emitted' = (ever_emitted \/ r.ret.is_violation)
        /\ run_label' = IF run_label \in {None, r.label} THEN r.label ELSE Mixed
        /\ last_normal' = IF r.label = NORMAL THEN t ELSE last_normal
        /\ last_emit' = IF r.ret.is_violation THEN t ELSE last_emit

Detect ==
    /\ \E f \in Frames, dt \in Steps : DetectCall(f, dt, VIOLATION_FRAME_COUNT)
    /\ UNCHANGED <<engine, clf, model_file, inp, out, auxVars>>

Reset ==
    /\ det' = reset(det)
    /\ last_op' = "reset"
    /\ ret' = NoViolation
    /\ calls' = 0
    /\ emitted' = 0
    /\ run_label' = None
    /\ last_normal' = None
    /\ last_emit' = None
    /\ UNCHANGED <<now, ever_emitted, engine, clf, model_file, inp, out, auxVars>>

Next == Detect \/ Reset

Spec == Init /\ [][Next]_vars

---------------------------------------------------------------------------
(* Two subjects, one detector each, one shared classifier and one clock *)

\* the time between two calls on the subjects' detectors
PeerSteps == {0, 2 * TicksPerSecond}

\* the frames of the subjects: one the model calls LOOKING_LEFT and one the
\* pitch rule calls HEAD_DOWN, so that a buffer is uniform or mixed
PeerFrames ==
    {Frame(0, <<0, 0>>, <<10, 60, 20, 10>>),
     Frame(25, <<30, 0>>, <<20, 10, 30, 40>>)}

\* detect() on the detector of subject i.  The call rebinds nothing but
\* attributes of self and mutates one list, self.frame_buffer; another
\* instance sees the new buffer exactly if it holds the same list object.
PeerDetect(i) ==
    /\ \E f \in PeerFrames, dt \in PeerSteps :
          LET t == now + dt
              r == detect(peers[i], f.features, f.iris_gaze, f.proba, t)
              s == detect(solo[i], f.features, f.iris_gaze, f.proba, t)
          IN  /\ t <= Epoch + MaxPeerSeconds * TicksPerSecond
              /\ r.exc = NoExc
              /\ now' = t
              /\ peers' = [j \in Instances |->
                              IF j = i THEN r.self
                              ELSE IF list_object(j) = list_object(i)
                              THEN [peers[j] EXCEPT !.frame_buffer = r.self.frame_buffer]
                              ELSE peers[j]]
              /\ solo' = [solo EXCEPT ![i] = s.self]
              /\ peer_ret' = [who |-> i, op |-> "detect", ret |-> r.ret,
                              solo_ret |-> s.ret]
    /\ UNCHANGED <<det, ret, last_op, calls, emitted, ever_emitted, run_label,
                   last_normal, last_emit, engine, clfVars, geo, ac, ws,
                   shown, exam, manager>>

\* reset() on the detector of subject i: every assignment is to an attribute
\* of self, the buffer becomes a new empty list
PeerReset(i) ==
    /\ peer_ret.who # 0
    /\ peers' = [peers EXCEPT ![i] = reset(peers[i])]
    /\ solo' = [solo EXCEPT ![i] = reset(solo[i])]
    /\ peer_ret' = [who |-> i, op |-> "reset", ret |-> NoViolation,
                    solo_ret |-> NoViolation]
    /\ UNCHANGED <<det, now, ret, last_op, calls, emitted, ever_emitted, run_label,
                   last_normal, last_emit, engine, clfVars, geo, ac, ws,
                   shown, exam, manager>>

NextPeers == \E i \in Instances : PeerDetect(i) \/ PeerReset(i)

SpecPeers == Init /\ [][NextPeers]_vars

---------------------------------------------------------------------------
(* The end-to-end scenario: head-down frames 0.1 s or 0.2 s apart *)

\* frames with pitch = 25, whatever the gaze and the model's probabilities
ScenarioFrames ==
    {Frame(25, g, p) : g \in {<<>>, <<30, 0>>},
                       p \in {<<70, 10, 10, 10>>, <<20, 10, 30, 40>>}}

ScenarioStep == TicksPerSecond \div 5
ScenarioSteps == {TicksPerSecond \div 10, ScenarioStep}

\* the first frame arrives at t = 0.0, each later one 0.1 s or 0.2 s after
\* the one before
ScenarioDetect ==
    /\ calls < MaxCalls
    /\ \E f \in ScenarioFrames, dt \in (IF calls = 0 THEN {0} ELSE ScenarioSteps) :
           DetectCall(f, dt, MaxCalls)
    /\ UNCHANGED <<engine, clf, model_file, inp, out, auxVars>>

NextScenario == ScenarioDetect

SpecScenario == Init /\ [][NextScenario]_vars

---------------------------------------------------------------------------
(* GeometryCalculator.extract_all_features and the ProctorEngine frame loop *)

POSE_POINTS_INDICES == <<1, 152, 33, 263, 61, 291>>
IrisLandmarkCount == 478

\* A landmark list is [len, pitch, iris, proba]: its length, the pitch the
\* PnP solve recovers from it, the iris gaze its eye landmarks give, and the
\* probabilities the model gives to the features extracted from it.

\* calculate_head_pose: one image point for each pose index inside the list;
\* cv2.solvePnP raises unless it gets as many image points as model points
calculate_head_pose(landmarks) ==
    LET image_points == SelectSeq(POSE_POINTS_INDICES, LAMBDA idx : idx < landmarks.len)
    IN  IF Len(image_points) # Len(POSE_POINTS_INDICES)
        THEN [exc |-> PnPError, pitch |-> None]
        ELSE [exc |-> NoExc, pitch |-> landmarks.pitch]

\* the landmark indices calculate_iris_gaze reads: iris centres, eye corners,
\* eye tops and bottoms of both eyes
IrisGazeIndices == {468, 33, 133, 159, 145, 473, 362, 263, 386, 374}

\* landmarks[idx] for each of those indices raises IndexError on a list that
\* ends before one of them
iris_lookup(landmarks) ==
    IF \E idx \in IrisGazeIndices : idx >= landmarks.len
    THEN IndexError
    ELSE NoExc

\* numpy.clip(x, -1.0, 1.0)
clip(x) == IF x < -100 THEN -100 ELSE IF x > 100 THEN 100 ELSE x

\* calculate_iris_gaze without the length check and without the except clause
calculate_iris_gaze_unguarded(landmarks) ==
    IF iris_lookup(landmarks) # NoExc
    THEN [exc |-> iris_lookup(landmarks), gaze |-> <<>>]
    ELSE [exc |-> NoExc, gaze |-> <<clip(landmarks.iris[1]), clip(landmarks.iris[2])>>]

\* calculate_iris_gaze: (0.0, 0.0) with fewer than 478 landmarks; past that
\* check an IndexError of the lookups is caught and gives (0.0, 0.0) too
calculate_iris_gaze(landmarks) ==
    IF landmarks.len < IrisLandmarkCount
    THEN [exc |-> NoExc, gaze |-> <<0, 0>>]
    ELSE IF iris_lookup(landmarks) # NoExc
    THEN [exc |-> NoExc, gaze |-> <<0, 0>>]
    ELSE [exc |-> NoExc, gaze |-> <<clip(landmarks.iris[1]), clip(landmarks.iris[2])>>]

extract_all_features(landmarks) ==
    LET pose == calculate_head_pose(landmarks)
    IN  IF pose.exc # NoExc
        THEN [exc |-> pose.exc, features |-> NoFrame.features, iris_gaze |-> <<>>]
        ELSE [exc |-> calculate_iris_gaze(landmarks).exc,
              features |-> [type |-> "ndarray", n |-> NumFeatures, pitch |-> pose.pitch],
              iris_gaze |-> calculate_iris_gaze(landmarks).gaze]

Landmarks(len, pitch, iris, proba) ==
    [len |-> len, pitch |-> pitch, iris |-> iris, proba |-> proba]

\* landmark lists: too short for the pose indices, a 468-point face, and
\* 478-point faces looking straight, left and down
LandmarkSets ==
    {Landmarks(100, 0, <<0, 0>>, <<70, 10, 10, 10>>),
     Landmarks(468, 0, <<-30, 0>>, <<70, 10, 10, 10>>),
     Landmarks(478, 0, <<-30, 0>>, <<10, 60, 20, 10>>),
     Landmarks(478, 25, <<30, 0>>, <<20, 10, 30, 40>>)}

\* what the loop hands to detect(): client/main.py passes the features and the
\* iris gaze, client/gui/tray_app.py passes the whole (features, iris_gaze)
\* tuple as features and no gaze
DetectArguments(app, e, landmarks) ==
    IF app = "client/main.py"
    THEN [features |-> e.features, iris_gaze |-> e.iris_gaze, proba |-> landmarks.proba]
    ELSE [features |-> [e.features EXCEPT !.type = "tuple"], iris_gaze |-> <<>>,
          proba |-> landmarks.proba]

Crash(exc) ==
    /\ engine' = [engine EXCEPT !.pc = "crashed", !.exc = exc]
    /\ UNCHANGED <<detVars, clfVars, auxVars>>

\* The loop reads no clock itself: the time slept between frames shows only in
\* the time.time() the next detect() call reads, which DetectCall draws.

\* cap.read() fails: sleep 0.1 s and go on
ReadFails ==
    /\ engine.pc = "running"
    /\ UNCHANGED vars

\* no face in the frame: status "No Face", sleep and go on
NoFace ==
    /\ engine.pc = "running"
    /\ engine' = [engine EXCEPT !.status = "No Face"]
    /\ UNCHANGED <<detVars, clfVars, auxVars>>

\* a face in the frame: extract the features, detect, report; an exception of
\* either call leaves run() and ends the thread
FaceFrame ==
    /\ engine.pc = "running"
    /\ \E landmarks \in LandmarkSets, dt \in {0, TicksPerSecond} :
          LET e == extract_all_features(landmarks)
              a == DetectArguments(engine.app, e, landmarks)
          IN  IF e.exc # NoExc
              THEN Crash(e.exc)
              ELSE LET r == detect(det, a.features, a.iris_gaze, a.proba, now + dt)
                   IN  IF r.exc # NoExc
                       THEN Crash(r.exc)
                       ELSE /\ DetectCall(a, dt, VIOLATION_FRAME_COUNT)
                            /\ engine' = [engine EXCEPT !.status =
                                              IF r.ret.is_violation
                                              THEN "VIOLATION" ELSE "Normal"]
                            /\ UNCHANGED <<clfVars, auxVars>>

InitPipeline ==
    /\ det = NewDetector
    /\ now = Epoch
    /\ last_op = "init"
    /\ ever_emitted = FALSE
    /\ engine \in [app : {"client/main.py", "client/gui/tray_app.py"},
                   pc : {"running"}, exc : {NoExc}, status : {"Monitoring"}]
    /\ InitHistory
    /\ InitClf
    /\ InitAux

NextPipeline == ReadFails \/ NoFace \/ FaceFrame

SpecPipeline == InitPipeline /\ [][NextPipeline]_vars

---------------------------------------------------------------------------
(* The GeometryCalculator alone: calls on arbitrary landmark lists *)

\* lengths from the empty list to the full 478-point mesh, around each index
\* the calculator reads
LandmarkLengths == {0, 1, 33, 291, 292, 468, 469, 473, 474, 477, 478}

\* landmark lists of those lengths, with eye landmarks that look straight,
\* left, right, down or out of range
GeometryInputs ==
    {Landmarks(len, pitch, iris, <<70, 10, 10, 10>>) :
        len \in LandmarkLengths,
        pitch \in {0, 25},
        iris \in {<<0, 0>>, <<-30, 0>>, <<30, 0>>, <<0, -40>>, <<120, -120>>}}

CalculateIrisGaze ==
    /\ \E landmarks \in GeometryInputs :
          LET r == calculate_iris_gaze(landmarks)
          IN  geo' = [NoGeo EXCEPT !.op = "calculate_iris_gaze",
                                   !.landmarks = landmarks,
                                   !.exc = r.exc, !.gaze = r.gaze]
    /\ UNCHANGED <<detVars, engine, clfVars, peerVars, ac, ws,
                   shown, exam, manager>>

CalculateHeadPose ==
    /\ \E landmarks \in GeometryInputs :
          LET r == calculate_head_pose(landmarks)
          IN  geo' = [NoGeo EXCEPT !.op = "calculate_head_pose",
                                   !.landmarks = landmarks,
                                   !.exc = r.exc, !.pitch = r.pitch]
    /\ UNCHANGED <<detVars, engine, clfVars, peerVars, ac, ws,
                   shown, exam, manager>>

ExtractAllFeatures ==
    /\ \E landmarks \in GeometryInputs :
          LET r == extract_all_features(landmarks)
          IN  geo' = [NoGeo EXCEPT !.op = "extract_all_features",
                                   !.landmarks = landmarks,
                                   !.exc = r.exc, !.gaze = r.iris_gaze,
                                   !.pitch = r.features.pitch]
    /\ UNCHANGED <<detVars, engine, clfVars, peerVars, ac, ws,
                   shown, exam, manager>>

\* shared/constants.py: the landmark indices around each eye
LEFT_EYE == <<33, 160, 158, 133, 153, 144>>
RIGHT_EYE == <<362, 385, 387, 263, 373, 380>>

\* GeometryCalculator.__init__: frame_width, in pixels
frame_width == 640

\* int(x * self.frame_width) of a normalised x given in hundredths: Python's
\* int() truncates towards zero
to_pixel(x) ==
    IF x >= 0 THEN (x * frame_width) \div 100 ELSE -(((-x) * frame_width) \div 100)

\* cv2.boundingRect of integer points, horizontally: the least x and the
\* width max - min + 1
boundingRect(pxs) ==
    LET lo == CHOOSE v \in SetOf(pxs) : \A u \in SetOf(pxs) : v <= u
        hi == CHOOSE v \in SetOf(pxs) : \A u \in SetOf(pxs) : u <= v
    IN  [x |-> lo, w |-> hi - lo + 1]

\* numpy.clip(x, 0.0, 1.0)
clip_unit(x) == IF x < 0 THEN 0 ELSE IF x > 100 THEN 100 ELSE x

\* the ratio measured at the second eye landmark instead of the box centre
calculate_eye_gaze_ratio_at_landmark(landmarks, eye) ==
    LET eye_landmarks == IF eye = "left" THEN LEFT_EYE ELSE RIGHT_EYE
        present == SelectSeq(eye_landmarks, LAMBDA idx : idx < landmarks.len)
        eye_points == [k \in 1..Len(present) |-> to_pixel(landmarks.x[present[k]])]
    IN  IF Len(eye_points) < 6
        THEN 50
        ELSE LET box == boundingRect(eye_points)
             IN  IF box.w > 0
                 THEN clip_unit(((eye_points[2] - box.x) * 100) \div box.w)
                 ELSE 50

\* calculate_eye_gaze_ratio(landmarks, eye), in hundredths.  x + w / 2 is a
\* multiple of half a pixel, so the centre and the left edge are counted in
\* half pixels (eye_center_x2, eye_left2) and the quotient by w doubles w.
calculate_eye_gaze_ratio(landmarks, eye) ==
    LET eye_landmarks == IF eye = "left" THEN LEFT_EYE ELSE RIGHT_EYE
        present == SelectSeq(eye_landmarks, LAMBDA idx : idx < landmarks.len)
        eye_points == [k \in 1..Len(present) |-> to_pixel(landmarks.x[present[k]])]
    IN  IF Len(eye_points) < 6
        THEN 50
        ELSE LET box == boundingRect(eye_points)
                 eye_center_x2 == 2 * box.x + box.w
                 eye_left2 == 2 * box.x
                 gaze_ratio == IF box.w > 0
                               THEN ((eye_center_x2 - eye_left2) * 100) \div (2 * box.w)
                               ELSE 50
             IN  clip_unit(gaze_ratio)

\* extract_all_features, lines 350-355: the eye_ratio element of the vector
avg_eye_ratio(landmarks) ==
    (calculate_eye_gaze_ratio(landmarks, "left")
        + calculate_eye_gaze_ratio(landmarks, "right")) \div 2

\* the normalised x, in hundredths, of the six landmarks of an eye: an open
\* eye, an eye whose points share one pixel column, an eye spanning the
\* frame, an eye partly left of the frame
EyeShapes ==
    {<<30, 32, 35, 40, 35, 32>>, <<50, 50, 50, 50, 50, 50>>,
     <<0, 3, 7, 100, 7, 3>>, <<-5, 0, 3, 10, 3, 0>>}

\* landmark lists that end before, within and after the indices of each eye
EyeInputs ==
    {[len |-> len, pitch |-> 0, iris |-> <<0, 0>>, proba |-> <<>>,
      x |-> [idx \in SetOf(LEFT_EYE) \cup SetOf(RIGHT_EYE) |->
                LET k == CHOOSE k \in 1..6 : LEFT_EYE[k] = idx \/ RIGHT_EYE[k] = idx
                IN  IF idx \in SetOf(LEFT_EYE) THEN left[k] ELSE right[k]]] :
        len \in {0, 34, 160, 161, 363, 387, 388, 478},
        left \in EyeShapes, right \in EyeShapes}

CalculateEyeGazeRatio ==
    /\ \E landmarks \in EyeInputs, eye \in {"left", "right"} :
          geo' = [op |-> "calculate_eye_gaze_ratio",
                  landmarks |-> landmarks,
                  exc |-> NoExc, gaze |-> <<>>, pitch |-> None,
                  eye |-> eye,
                  ratio |-> calculate_eye_gaze_ratio(landmarks, eye),
                  avg_eye_ratio |-> avg_eye_ratio(landmarks)]
    /\ UNCHANGED <<detVars, engine, clfVars, peerVars, ac, ws,
                   shown, exam, manager>>

NextGeometry ==
    CalculateIrisGaze \/ CalculateHeadPose \/ ExtractAllFeatures \/ CalculateEyeGazeRatio

SpecGeometry == Init /\ [][NextGeometry]_vars

---------------------------------------------------------------------------
(* AntiCheatMonitor._report_violation called from several threads *)

\* lines 148-152: the CheatViolation, a local of the call
build_violation(event_type, details, t) ==
    [event_type |-> event_type, timestamp |-> t, details |-> details]

\* the call of the callback outside any try statement
callback_unguarded(exc) == exc

\* lines 157-160: try: self.on_violation(violation) except Exception: print
callback_guarded(exc) == NoExc

\* AntiCheatMonitor(on_violation=callback), or AntiCheatMonitor(); the
\* callback appends to a list under a lock or raises
NewMonitor ==
    /\ ac.on_violation = "no monitor"
    /\ \E on_violation \in {"callback", "unset"} :
          ac' = [ac EXCEPT !.on_violation = on_violation]
    /\ UNCHANGED <<detVars, engine, clfVars, peerVars, geo, ws,
                   shown, exam, manager>>

\* a thread enters _report_violation(event_type, details) and builds the
\* violation; details is "Thread violation i"
ReportBuild(t) ==
    /\ ac.on_violation # "no monitor"
    /\ ac.threads[t].pc = "idle"
    /\ ac.threads[t].done < ReportsPerThread
    /\ \E event_type \in CheatEvents :
          LET details == ac.threads[t].done
              v == build_violation(event_type, details, now)
          IN  ac' = [ac EXCEPT !.threads[t].pc = "built",
                               !.threads[t].request =
                                   [NoCheat EXCEPT !.event_type = event_type,
                                                   !.details = details],
                               !.threads[t].violation = v]
    /\ UNCHANGED <<detVars, engine, clfVars, peerVars, geo, ws,
                   shown, exam, manager>>

\* the thread goes on from the print: with a callback set it calls it with
\* the violation; the callback appends the violation to its list or raises;
\* the call returns and its locals are gone
ReportCallback(t) ==
    /\ ac.threads[t].pc = "built"
    /\ IF ac.on_violation = "unset"
       THEN ac' = [ac EXCEPT !.threads[t].pc = "idle",
                             !.threads[t].done = @ + 1,
                             !.threads[t].request = NoCheat,
                             !.threads[t].violation = NoCheat]
       ELSE \E raised \in {NoExc, CallbackError} :
              LET th == ac.threads[t]
                  exc == callback_guarded(raised)
                  called == [th EXCEPT
                                !.invoked = @ + 1,
                                !.raised = IF raised # NoExc THEN @ + 1 ELSE @,
                                !.args_ok = /\ @
                                            /\ th.violation.event_type = th.request.event_type
                                            /\ th.violation.details = th.request.details]
              IN  ac' = [ac EXCEPT
                            !.violations = IF raised = NoExc THEN @ + 1 ELSE @,
                            !.threads[t] =
                                IF exc # NoExc
                                THEN [called EXCEPT !.pc = "dead", !.exc = exc]
                                ELSE [called EXCEPT !.pc = "idle", !.done = @ + 1,
                                                    !.request = NoCheat,
                                                    !.violation = NoCheat]]
    /\ UNCHANGED <<detVars, engine, clfVars, peerVars, geo, ws,
                   shown, exam, manager>>

NextAntiCheat ==
    \/ NewMonitor
    \/ \E t \in Threads : ReportBuild(t) \/ ReportCallback(t)

SpecAntiCheat == Init /\ [][NextAntiCheat]_vars

---------------------------------------------------------------------------
(* WebSocketClient: run() and its heartbeat, receive and reconnect tasks *)

\* what a call of connect() may meet: websockets.connect succeeds and
\* connect() returns True; websockets.connect raises; or the on_connect
\* callback raises after the connection was made.  In the last two cases
\* connect() returns False.
ConnectOutcomes == {"connected", "refused", "callback raised"}

\* connect(); every connect attempt answers the losses before it
connect(self, outcome) ==
    IF outcome = "connected"
    THEN [self EXCEPT !.websocket = "conn",
                      !.link = "open",
                      !.is_connected = TRUE,
                      !.reconnect_attempts = 0,
                      !.pending_loss = FALSE]
    ELSE IF outcome = "callback raised"
    THEN [self EXCEPT !.websocket = "conn",
                      !.link = "open",
                      !.is_connected = FALSE,
                      !.reconnect_attempts = 0,
                      !.pending_loss = FALSE]
    ELSE [self EXCEPT !.is_connected = FALSE,
                      !.pending_loss = FALSE]

\* the attempt made whatever the number of failed attempts
may_reconnect_always(self) == TRUE

\* reconnect_loop, line 219: attempts are left
may_reconnect(self) == self.reconnect_attempts < self.max_reconnect_attempts

\* run(): should_run, the initial connection, then the three tasks
WsRun ==
    /\ ws.run = "new"
    /\ \E outcome \in ConnectOutcomes :
          ws' = [connect([ws EXCEPT !.should_run = TRUE], outcome) EXCEPT
                    !.run = "gathering", !.recv = "running",
                    !.step = [by |-> "run", outcome |-> outcome]]
    /\ UNCHANGED <<detVars, engine, clfVars, peerVars, geo, ac,
                   shown, exam, manager>>

\* one round of receive_loop: the loop condition, then recv(), which raises
\* ConnectionClosed on a closed connection (flag cleared, break) and returns
\* a message otherwise; once the loop is left the task is finished
WsReceive ==
    /\ ws.run = "gathering"
    /\ ws.recv = "running"
    /\ ws' = IF ~(ws.should_run /\ ws.is_connected)
             THEN [ws EXCEPT !.recv = "finished",
                             !.step = [by |-> "receive_loop", outcome |-> "none"]]
             ELSE IF ws.websocket # "none" /\ ws.link = "closed"
             THEN [ws EXCEPT !.is_connected = FALSE, !.recv = "finished",
                             !.step = [by |-> "receive_loop", outcome |-> "none"]]
             ELSE ws
    /\ UNCHANGED <<detVars, engine, clfVars, peerVars, geo, ac,
                   shown, exam, manager>>

\* one round of reconnect_loop
WsReconnect ==
    /\ ws.run = "gathering"
    /\ ws.should_run
    /\ IF ~ws.is_connected /\ may_reconnect(ws)
       THEN \E outcome \in ConnectOutcomes :
              ws' = IF outcome = "connected"
                    THEN [connect(ws, outcome) EXCEPT
                             !.reconnects = IF @ < 2 THEN @ + 1 ELSE @,
                             !.step = [by |-> "reconnect_loop", outcome |-> outcome]]
                    ELSE [connect(ws, outcome) EXCEPT
                             !.reconnect_attempts = @ + 1,
                             !.step = [by |-> "reconnect_loop", outcome |-> outcome]]
       ELSE ws' = ws
    /\ UNCHANGED <<detVars, engine, clfVars, peerVars, geo, ac,
                   shown, exam, manager>>

\* one round of heartbeat_loop: send_message swallows a failed send
WsHeartbeat ==
    /\ ws.run = "gathering"
    /\ ws.should_run
    /\ ws' = IF ws.is_connected /\ ws.websocket # "none" /\ ws.link = "open"
             THEN [ws EXCEPT !.last_heartbeat = "sent",
                             !.step = [by |-> "heartbeat_loop", outcome |-> "none"]]
             ELSE ws
    /\ UNCHANGED <<detVars, engine, clfVars, peerVars, geo, ac,
                   shown, exam, manager>>

\* the server or the network closes the connection
WsConnectionLost ==
    /\ ws.link = "open"
    /\ ws' = [ws EXCEPT !.link = "closed", !.pending_loss = TRUE,
                        !.step = [by |-> "network", outcome |-> "none"]]
    /\ UNCHANGED <<detVars, engine, clfVars, peerVars, geo, ac,
                   shown, exam, manager>>

\* stop()
WsStop ==
    /\ ws.run = "gathering"
    /\ ws.should_run
    /\ ws' = [ws EXCEPT !.should_run = FALSE,
                        !.step = [by |-> "stop", outcome |-> "none"]]
    /\ UNCHANGED <<detVars, engine, clfVars, peerVars, geo, ac,
                   shown, exam, manager>>

\* the tasks have left their loops: gather returns, run() calls disconnect()
WsDisconnect ==
    /\ ws.run = "gathering"
    /\ ~ws.should_run
    /\ ws.recv = "finished"
    /\ ws' = [ws EXCEPT !.is_connected = FALSE,
                        !.websocket = "none",
                        !.link = IF @ = "none" THEN "none" ELSE "closed",
                        !.run = "returned",
                        !.step = [by |-> "disconnect", outcome |-> "none"]]
    /\ UNCHANGED <<detVars, engine, clfVars, peerVars, geo, ac,
                   shown, exam, manager>>

NextWebSocket ==
    \/ WsRun
    \/ WsReceive
    \/ WsReconnect
    \/ WsHeartbeat
    \/ WsConnectionLost
    \/ WsStop
    \/ WsDisconnect

\* the event loop runs every task that is ready
SpecWebSocket ==
    /\ Init
    /\ [][NextWebSocket]_vars
    /\ WF_vars(WsReceive)
    /\ WF_vars(WsReconnect)
    /\ WF_vars(WsHeartbeat)

---------------------------------------------------------------------------
(* The classifier alone: construction, then calls on arbitrary arguments *)

\* arguments on, beside and beyond each threshold, of the right and of a wrong
\* width, with the probabilities of a 4-class and of a 3-class model
ClassifierInputs ==
    [features : [type : {"ndarray"}, n : {NumFeatures, 3}, pitch : {0, 20, 25}],
     iris_gaze : {<<>>, <<0, 0>>, <<-30, 0>>, <<-25, 0>>, <<25, 0>>, <<30, 0>>,
                  <<0, -30>>, <<0, -40>>, <<30, -40>>, <<-30, -40>>},
     proba : {<<70, 10, 10, 10>>, <<10, 20, 60, 10>>, <<50, 30, 20>>}]

InitClassifier ==
    /\ clf = BehaviorClassifier_init
    /\ model_file \in {"ok", "absent", "corrupt"}
    /\ inp = NoFrame
    /\ out = NoOut
    /\ det = NewDetector
    /\ now = Epoch
    /\ last_op = "init"
    /\ ever_emitted = FALSE
    /\ engine = [app |-> "client/main.py", pc |-> "running", exc |-> NoExc,
                 status |-> "Monitoring"]
    /\ InitHistory
    /\ InitAux

\* BehaviorClassifier(): __init__ runs load_model
Construct ==
    /\ clf.pc = "new"
    /\ LET r == load_model(clf, model_file)
       IN  /\ clf' = r.self
           /\ out' = [NoOut EXCEPT !.op = "load_model", !.exc = r.exc]
    /\ UNCHANGED <<model_file, inp, detVars, engine, auxVars>>

\* predict(features, iris_gaze) on the instance as it is
Predict ==
    /\ \E a \in ClassifierInputs :
          LET r == predict(clf, a.features, a.iris_gaze, a.proba)
          IN  /\ inp' = a
              /\ out' = [NoOut EXCEPT !.op = "predict", !.exc = r.exc, !.label = r.label]
    /\ UNCHANGED <<clf, model_file, detVars, engine, auxVars>>

PredictProba ==
    /\ \E a \in ClassifierInputs :
          LET r == predict_proba(clf, a.features, a.proba)
          IN  /\ inp' = a
              /\ out' = [NoOut EXCEPT !.op = "predict_proba", !.exc = r.exc,
                                      !.probabilities = r.probabilities]
    /\ UNCHANGED <<clf, model_file, detVars, engine, auxVars>>

PredictWithConfidence ==
    /\ \E a \in ClassifierInputs :
          LET r == predict_with_confidence(clf, a.features, a.iris_gaze, a.proba)
          IN  /\ inp' = a
              /\ out' = [NoOut EXCEPT !.op = "predict_with_confidence", !.exc = r.exc,
                                      !.label = r.label, !.confidence = r.confidence]
    /\ UNCHANGED <<clf, model_file, detVars, engine, auxVars>>

NextClassifier == Construct \/ Predict \/ PredictProba \/ PredictWithConfidence

SpecClassifier == InitClassifier /\ [][NextClassifier]_vars

---------------------------------------------------------------------------
(* The detector with the classification of each frame and the state display *)

\* demo_ai_pipeline.py: detect() on the frame, of which the classifier's
\* answer is kept beside what detect() returned
ObservedDetect ==
    /\ \E f \in Frames, dt \in Steps :
          /\ DetectCall(f, dt, VIOLATION_FRAME_COUNT)
          /\ inp' = f
          /\ LET c == predict_with_confidence(det.classifier, f.features,
                                              f.iris_gaze, f.proba)
             IN  out' = [NoOut EXCEPT !.op = "predict_with_confidence",
                                      !.exc = c.exc, !.label = c.label,
                                      !.confidence = c.confidence]
    /\ shown' = NoState
    /\ UNCHANGED <<engine, clf, model_file, peerVars, geo, ac, ws, exam, manager>>

\* demo_ai_pipeline.py line 112: violation_detector.get_current_state(),
\* which reads the clock itself
GetCurrentState ==
    /\ \E dt \in Steps :
          LET t == now + dt
              r == get_current_state(det, t)
          IN  /\ t <= Epoch + MaxSeconds * TicksPerSecond
              /\ now' = t
              /\ det' = r.self
              /\ shown' = [at |-> t, text |-> r.state.text, timer |-> r.state.timer]
              /\ last_op' = "get_current_state"
    /\ UNCHANGED <<ret, calls, emitted, ever_emitted, run_label, last_normal,
                   last_emit, engine, clfVars, peerVars, geo, ac, ws, exam, manager>>

\* reset() between two frames
ObservedReset ==
    /\ det' = reset(det)
    /\ last_op' = "reset"
    /\ ret' = NoViolation
    /\ calls' = 0
    /\ emitted' = 0
    /\ run_label' = None
    /\ last_normal' = None
    /\ last_emit' = None
    /\ shown' = NoState
    /\ UNCHANGED <<now, ever_emitted, engine, clfVars, peerVars, geo, ac, ws,
                   exam, manager>>

NextObserved == ObservedDetect \/ GetCurrentState \/ ObservedReset

SpecObserved == Init /\ [][NextObserved]_vars

---------------------------------------------------------------------------
(* The exam routes of the server: create, join, record a violation *)

\* record_violation for current_user = u on the database db: the database
\* after the request and the response.  The handler has no await, so it runs
\* from query to commit without another request in between.
record_violation(db, u) ==
    IF db.status = "none"
    THEN [db |-> db, status_code |-> 404, violation_count |-> None, is_flagged |-> FALSE]
    ELSE IF ~db.participants[u].joined
    THEN [db |-> db, status_code |-> 400, violation_count |-> None, is_flagged |-> FALSE]
    ELSE
    LET violation_count == db.participants[u].violation_count + 1
        is_flagged == IF violation_count >= db.max_violations
                      THEN TRUE
                      ELSE db.participants[u].is_flagged
    IN  [db |-> [db EXCEPT !.violations[u] = @ + 1,
                           !.participants[u].violation_count = violation_count,
                           !.participants[u].is_flagged = is_flagged],
         status_code |-> 200,
         violation_count |-> violation_count,
         is_flagged |-> is_flagged]

\* create_exam with ExamCreate.max_violations = m
CreateExam ==
    /\ exam.status = "none"
    /\ \E m \in {1, 2, 3} :
          exam' = [exam EXCEPT !.status = "pending", !.max_violations = m,
                               !.response = [NoResponse EXCEPT !.route = "create_exam",
                                                               !.status_code = 200]]
    /\ UNCHANGED <<detVars, engine, clfVars, peerVars, geo, ac, ws, shown, manager>>

\* join_exam by student u: a new participant row, or the row there is
JoinExam(u) ==
    /\ exam' =
          IF exam.status = "none"
          THEN [exam EXCEPT !.response = [NoResponse EXCEPT !.route = "join_exam",
                                                            !.user = u,
                                                            !.status_code = 404]]
          ELSE [exam EXCEPT !.participants[u] =
                                IF @.joined THEN @ ELSE NewParticipant,
                            !.response = [NoResponse EXCEPT !.route = "join_exam",
                                                            !.user = u,
                                                            !.status_code = 200]]
    /\ UNCHANGED <<detVars, engine, clfVars, peerVars, geo, ac, ws, shown, manager>>

\* POST /{exam_code}/violation by student u
RecordViolation(u) ==
    /\ exam.participants[u].violation_count < MaxRecorded
    /\ LET r == record_violation(exam, u)
       IN  exam' = [r.db EXCEPT !.response =
                        [route |-> "record_violation", user |-> u,
                         status_code |-> r.status_code,
                         violation_count |-> r.violation_count,
                         is_flagged |-> r.is_flagged]]
    /\ UNCHANGED <<detVars, engine, clfVars, peerVars, geo, ac, ws, shown, manager>>

NextExam ==
    \/ CreateExam
    \/ \E u \in Students : JoinExam(u)
    \/ \E u \in Students : RecordViolation(u)

SpecExam == Init /\ [][NextExam]_vars

---------------------------------------------------------------------------
(* The server's /ws endpoint, one handler coroutine per websocket *)

\* lines 200-211: the websocket stored under the student's key, the session
\* marked online or created (StudentSession.is_online defaults to True)
register_student(self, student_id, websocket) ==
    [self EXCEPT !.active_connections[student_id] = websocket,
                 !.sessions[student_id] =
                     IF @.exists
                     THEN [@ EXCEPT !.is_online = TRUE, !.last_heartbeat = "connect"]
                     ELSE [exists |-> TRUE, is_online |-> TRUE,
                           last_heartbeat |-> "connect", violations |-> 0]]

\* ConnectionManager.disconnect_student
disconnect_student(self, student_id) ==
    [self EXCEPT !.active_connections[student_id] = NoConnection,
                 !.sessions[student_id] =
                     IF @.exists THEN [@ EXCEPT !.is_online = FALSE] ELSE @]

\* the finally clause of the endpoint: `if student_id:` is false for None
\* and for the empty string
endpoint_finally(self, c) ==
    LET student_id == self.handlers[c].student_id
        left == [self EXCEPT !.handlers[c].pc = "closed"]
    IN  IF student_id \notin {NoStudent, ""}
        THEN disconnect_student(left, student_id)
        ELSE left

\* ConnectionManager.handle_message(student_id, data)
handle_message(self, student_id, type) ==
    IF type = "heartbeat"
    THEN [self EXCEPT !.sessions[student_id] =
                          IF @.exists THEN [@ EXCEPT !.last_heartbeat = "heartbeat"] ELSE @]
    ELSE IF type = "violation"
    THEN [self EXCEPT !.sessions[student_id] =
                          IF @.exists THEN [@ EXCEPT !.violations = @ + 1] ELSE @]
    ELSE self

\* a peer opens a websocket: await websocket.accept()
SrvAccept(c) ==
    /\ manager.handlers[c].pc = "idle"
    /\ manager' = [manager EXCEPT !.handlers[c].pc = "accepted"]
    /\ UNCHANGED <<detVars, engine, clfVars, peerVars, geo, ac, ws, shown, exam>>

\* the first message is a CONNECT carrying student_id: lines 199-218
SrvConnect(c) ==
    /\ manager.handlers[c].pc = "accepted"
    /\ \E student_id \in StudentIds :
          manager' = [register_student(manager, student_id, c)
                         EXCEPT !.handlers[c] = [pc |-> "serving",
                                                 student_id |-> student_id]]
    /\ UNCHANGED <<detVars, engine, clfVars, peerVars, geo, ac, ws, shown, exam>>

\* the first message is of another type (close 4001), does not come in ten
\* seconds (close 4002) or the peer is gone: the handler ends with
\* student_id = None
SrvReject(c) ==
    /\ manager.handlers[c].pc = "accepted"
    /\ manager' = endpoint_finally(manager, c)
    /\ UNCHANGED <<detVars, engine, clfVars, peerVars, geo, ac, ws, shown, exam>>

\* a message read in the loop of lines 220-223
SrvMessage(c) ==
    /\ manager.handlers[c].pc = "serving"
    /\ \E type \in {"heartbeat", "violation"} :
          /\ type = "violation" =>
                manager.sessions[manager.handlers[c].student_id].violations < MaxMessages
          /\ manager' = handle_message(manager, manager.handlers[c].student_id, type)
    /\ UNCHANGED <<detVars, engine, clfVars, peerVars, geo, ac, ws, shown, exam>>

\* receive_text raises (the peer closed, or a message is not JSON): the
\* except clauses, then the finally clause
SrvDisconnect(c) ==
    /\ manager.handlers[c].pc = "serving"
    /\ manager' = endpoint_finally(manager, c)
    /\ UNCHANGED <<detVars, engine, clfVars, peerVars, geo, ac, ws, shown, exam>>

NextServer ==
    \E c \in Connections :
        \/ SrvAccept(c)
        \/ SrvConnect(c)
        \/ SrvReject(c)
        \/ SrvMessage(c)
        \/ SrvDisconnect(c)

SpecServer == Init /\ [][NextServer]_vars

---------------------------------------------------------------------------
(* Properties of the detector *)

IsViolationLabel(l) == l \notin {None, NORMAL, Mixed}

\* the tracking triple of the detector
Tracking(d) ==
    <<d.current_violation_label, d.violation_start_time, d.violation_reported>>

\* the confidences predict_with_confidence gives to those of the frames that
\* it labels l
ConfidencesOf(frames, l) ==
    {predict_with_confidence(LoadedClassifier, f.features, f.iris_gaze, f.proba).confidence :
        f \in {g \in frames :
                 predict_with_confidence(LoadedClassifier, g.features, g.iris_gaze,
                                         g.proba).label = l}}

\* C1: on a fresh or reset detector fed only frames of one non-NORMAL label
\* L, detect() returns exactly one violation: none before the first call (after
\* the one that starts tracking) at least violation_duration after the tracking
\* start, the violation (True, L, confidence) on that call, and none on any
\* later call, also after the cooldown has run out.
C1_OneViolationPerRun ==
    IsViolationLabel(run_label) =>
        /\ emitted <= 1
        /\ calls < VIOLATION_FRAME_COUNT => emitted = 0
        /\ calls = VIOLATION_FRAME_COUNT =>
              /\ det.current_violation_label = run_label
              /\ det.violation_start_time # None
              /\ emitted = 0 =>
                    now - det.violation_start_time < det.violation_duration
              /\ emitted = 1 =>
                    /\ det.violation_reported
                    /\ last_emit - det.violation_start_time >= det.violation_duration
        /\ ret.is_violation =>
              /\ last_emit = now
              /\ ret.label = run_label
              /\ ret.confidence \in ConfidencesOf(Frames, run_label)

\* the run of one label goes on after the violation and past its cooldown
C1_Witness ==
    /\ run_label = HEAD_DOWN
    /\ last_op = "detect"
    /\ emitted = 1
    /\ ~ret.is_violation
    /\ now >= last_emit + COOLDOWN_SECONDS + VIOLATION_DURATION_SECONDS

\* C2: after a violation at time t, a detect() call at a time before
\* t + cooldown returns no violation and leaves the tracked label, the start
\* time and the reported flag as they were.
C2_CooldownFreezesTracking ==
    [][(/\ last_op' = "detect"
        /\ last_emit # None
        /\ now' < last_emit + COOLDOWN_SECONDS)
       => (/\ ~ret'.is_violation
           /\ Tracking(det') = Tracking(det))]_vars

\* a call suppressed by the cooldown while the buffer holds one violation label
C2_Witness ==
    /\ last_op = "detect"
    /\ last_emit # None
    /\ now < last_emit + COOLDOWN_SECONDS
    /\ ~ret.is_violation
    /\ current_behavior(det.frame_buffer, det.violation_threshold) # None
    /\ det.violation_reported

\* the call was not cut short by the cooldown check
NotSuppressed == last_op = "detect" /\ (ret.is_violation \/ ~in_cooldown(det, now))

\* C3: after a NORMAL frame at time tn, once the buffer is again full of one
\* violation label and detect() gets past the cooldown check, the label is
\* tracked from a start time not before tn, and a reported occurrence was
\* reported after a full violation_duration from that start.
C3_InterruptionRestartsTimer ==
    (/\ NotSuppressed
     /\ last_normal # None
     /\ current_behavior(det.frame_buffer, det.violation_threshold) # None)
    => (/\ det.current_violation_label =
              current_behavior(det.frame_buffer, det.violation_threshold)
        /\ det.violation_start_time >= last_normal
        /\ det.violation_reported =>
              last_emit >= det.violation_start_time + det.violation_duration)

\* C4: a violation is never returned earlier than cooldown + violation_duration
\* after the previous violation of the same detector.
C4_FreshDurationAfterCooldown ==
    [][(ret'.is_violation /\ last_op' = "detect" /\ last_emit # None)
       => now' >= last_emit + COOLDOWN_SECONDS + VIOLATION_DURATION_SECONDS]_vars

\* a second violation of one detector
C4_Witness ==
    /\ last_op = "detect"
    /\ emitted = 2
    /\ ret.is_violation

\* C5: while fewer than N frames have been fed to a fresh or reset detector,
\* detect() returns no violation.
C5_NoViolationBeforeNFrames ==
    calls < VIOLATION_FRAME_COUNT => (~ret.is_violation /\ emitted = 0)

\* N - 1 frames of one violation label spread over more than violation_duration
C5_Witness ==
    /\ calls = VIOLATION_FRAME_COUNT - 1
    /\ last_op = "detect"
    /\ IsViolationLabel(run_label)
    /\ now >= Epoch + VIOLATION_DURATION_SECONDS

\* the k-th call of the scenario when every frame so far came 0.2 s after the
\* one before (no step is longer, so the k-th call is at this time only then)
OnSchedule(k) == calls = k /\ now = Epoch + (k - 1) * ScenarioStep

\* C6, as stated: the first five frames return no violation, the call at
\* t = 2.0 s (the 11th) returns a HEAD_DOWN violation, and the call 0.1 s after
\* that violation returns none.
C6_ScenarioAsStated ==
    /\ calls <= VIOLATION_FRAME_COUNT => ~ret.is_violation
    /\ OnSchedule(11) => (ret.is_violation /\ ret.label = HEAD_DOWN)
    /\ (/\ calls = 12
        /\ last_emit = Epoch + 10 * ScenarioStep
        /\ now = last_emit + TicksPerSecond \div 10) => ~ret.is_violation

\* C6, amended: the first five frames return no violation and the fifth, at
\* t = 0.8 s, starts the tracking; the calls at t = 1.0 .. 2.6 s, the one at
\* 2.0 s among them, return no violation; the call at t = 2.8 s (the 15th)
\* returns the HEAD_DOWN violation; the next call, at t = 2.9 s, returns
\* none because the cooldown is active.
C6_ScenarioAmended ==
    /\ calls <= VIOLATION_FRAME_COUNT => ~ret.is_violation
    /\ OnSchedule(VIOLATION_FRAME_COUNT) =>
          det.violation_start_time = Epoch + 4 * ScenarioStep
    /\ \A k \in 6..14 : OnSchedule(k) => ~ret.is_violation
    /\ OnSchedule(15) =>
          /\ ret.is_violation
          /\ ret.label = HEAD_DOWN
          /\ ret.confidence \in ConfidencesOf(ScenarioFrames, HEAD_DOWN)
          /\ now - det.violation_start_time = VIOLATION_DURATION_SECONDS
    /\ (/\ calls = 16
        /\ det.violation_start_time = Epoch + 4 * ScenarioStep
        /\ last_emit = Epoch + 14 * ScenarioStep
        /\ now = last_emit + TicksPerSecond \div 10)
       => (~ret.is_violation /\ in_cooldown(det, now))

\* the call at t = 2.9 s, right after the violation at t = 2.8 s
C6_Witness ==
    /\ calls = 16
    /\ det.violation_start_time = Epoch + 4 * ScenarioStep
    /\ last_emit = Epoch + 14 * ScenarioStep
    /\ now = last_emit + TicksPerSecond \div 10
    /\ ~ret.is_violation

\* C7: no exception of extract_all_features or detect leaves the frame loop
\* of client/main.py, whatever the landmark list: the loop keeps running.
C7_NoErrorLeavesFrameLoop ==
    engine.app = "client/main.py" => engine.pc = "running"

\* C8: with pitch above the threshold predict() returns HEAD_DOWN, whatever
\* the gaze, the model's answer and the width of the vector.
C8_PitchRuleFirst ==
    (/\ out.op = "predict"
     /\ clf.model # None
     /\ inp.features.pitch > PitchDownThreshold)
    => (out.exc = NoExc /\ out.label = HEAD_DOWN)

\* pitch 25 with a gaze that says LOOKING_RIGHT and a model that says
\* LOOKING_RIGHT
C8_Witness ==
    /\ out.op = "predict"
    /\ clf.model # None
    /\ inp.features.pitch = 25
    /\ inp.iris_gaze = <<30, 0>>
    /\ ArgMax(inp.proba) = LOOKING_RIGHT
    /\ out.label = HEAD_DOWN

IsCall(op) == op \in {"predict", "predict_proba", "predict_with_confidence"}

\* C9: with an absent or corrupt model file the construction raises and
\* leaves no instance with a model; only a loadable file gives a ready
\* instance; and on an instance whose model is unset predict(),
\* predict_proba() and predict_with_confidence() raise "Model not loaded" for
\* every argument and return no label, no probabilities, no confidence.
C9_ModelLoadIsFatal ==
    /\ (clf.pc # "new" /\ model_file # "ok") => (clf.pc = "raised" /\ clf.model = None)
    /\ (out.op = "load_model" /\ model_file # "ok") =>
          out.exc \in {ModelFileNotFound, ModelLoadFailed}
    /\ clf.pc = "ready" => (clf.model # None /\ model_file = "ok")
    /\ (IsCall(out.op) /\ clf.model = None) =>
          /\ out.exc = ModelNotLoaded
          /\ out.label = None
          /\ out.confidence = None
          /\ out.probabilities = <<>>

\* predict() on the instance a failed construction left behind, with a pitch
\* the rule alone would decide
C9_Witness ==
    /\ out.op = "predict"
    /\ clf.pc = "raised"
    /\ clf.model = None
    /\ inp.features.pitch > PitchDownThreshold
    /\ out.exc = ModelNotLoaded

\* C10: right after reset() the detector is in the state of a freshly
\* constructed detector with the same parameters: empty buffer, nothing
\* tracked, not reported, no cooldown.  detect() is a function of that state,
\* its arguments and the clock, so the responses that follow are those of a
\* fresh detector.
C10_ResetGivesFreshDetector ==
    last_op = "reset" =>
        det = ViolationDetector_init(det.classifier, det.violation_threshold,
                                     det.violation_duration)

\* a reset while the cooldown of a reported violation is running
C10_Witness ==
    /\ last_op = "reset"
    /\ ever_emitted
    /\ now < Epoch + VIOLATION_DURATION_SECONDS + COOLDOWN_SECONDS
    /\ det.cooldown_until = None

\* C11: a detect() or reset() call on one subject's detector leaves the other
\* subject's detector (frame buffer, tracked label, start time, reported flag,
\* cooldown) as it was, and each detector's state and return values are those
\* of a detector that received its own subject's calls only.
C11_DetectorsIsolated ==
    /\ [](/\ peers = solo
          /\ peer_ret.ret = peer_ret.solo_ret)
    /\ [][\A i \in Instances : \A j \in Instances \ {i} :
              peer_ret'.who = i => peers'[j] = peers[j]]_vars

\* subject 1 is inside the cooldown of its reported violation while subject 2,
\* called in between, holds a buffer of another label and has reported nothing
C11_Witness ==
    /\ peer_ret.who = 2
    /\ peer_ret.op = "detect"
    /\ peers[1].violation_reported
    /\ in_cooldown(peers[1], now)
    /\ Len(peers[2].frame_buffer) = VIOLATION_FRAME_COUNT
    /\ peers[2].cooldown_until = None
    /\ peers[2].current_violation_label \notin {None, peers[1].current_violation_label}

\* C12: calculate_iris_gaze returns exactly (0.0, 0.0) and raises nothing for
\* every landmark list with fewer than 478 entries, the empty list included.
C12_ShortListGivesZeroGaze ==
    (geo.op = "calculate_iris_gaze" /\ geo.landmarks.len < IrisLandmarkCount)
    => (geo.exc = NoExc /\ geo.gaze = <<0, 0>>)

\* the empty list, whose eye landmarks would otherwise say "looking left"
C12_Witness ==
    /\ geo.op = "calculate_iris_gaze"
    /\ geo.landmarks.len = 0
    /\ geo.landmarks.iris = <<-30, 0>>
    /\ geo.gaze = <<0, 0>>

RECURSIVE SumOver(_, _)
\* the sum of f[x] over the set S
SumOver(f, S) ==
    IF S = {} THEN 0
    ELSE LET x == CHOOSE y \in S : TRUE IN f[x] + SumOver(f, S \ {x})

\* C13: with a callback set, every _report_violation call that has returned
\* invoked the callback exactly once, with a CheatViolation of the event type
\* and details it was given; no exception of the callback reaches the
\* reporting thread; the callback's list holds one entry for each invocation
\* that did not raise; and when all threads are through, the invocations
\* number NumThreads * ReportsPerThread.
C13_OneCallbackPerReport ==
    ac.on_violation = "callback" =>
        /\ \A t \in Threads :
              /\ ac.threads[t].pc # "dead"
              /\ ac.threads[t].exc = NoExc
              /\ ac.threads[t].invoked = ac.threads[t].done
              /\ ac.threads[t].args_ok
        /\ ac.violations =
              SumOver([t \in Threads |-> ac.threads[t].invoked - ac.threads[t].raised],
                      Threads)
        /\ (\A t \in Threads : ac.threads[t].pc = "idle"
                                /\ ac.threads[t].done = ReportsPerThread)
           => SumOver([t \in Threads |-> ac.threads[t].invoked], Threads)
                  = NumThreads * ReportsPerThread

\* all threads are through after interleaved reports, and the callback
\* raised on some of its invocations
C13_Witness ==
    /\ ac.on_violation = "callback"
    /\ \A t \in Threads : ac.threads[t].done = ReportsPerThread
    /\ \E t \in Threads : ac.threads[t].raised > 0
    /\ ac.violations < NumThreads * ReportsPerThread

\* C14: while run() is active and fewer than max_reconnect_attempts attempts
\* have failed in a row, every loss of the connection, also one after an
\* earlier successful reconnect, is eventually followed by a new connect
\* attempt (which the reconnect loop makes only once is_connected is false).
C14_ReconnectAfterEveryLoss ==
    (ws.pending_loss /\ ws.should_run)
        ~> (\/ ~ws.pending_loss
            \/ ~ws.should_run
            \/ ws.reconnect_attempts >= ws.max_reconnect_attempts)

\* the dominant behaviour of the detector's buffer
DominantOf(d) == current_behavior(d.frame_buffer, d.violation_threshold)

BufferFull(d) == Len(d.frame_buffer) >= d.violation_threshold

\* at time t no cooldown is set or the cooldown set has run out
CooldownOver(d, t) == d.cooldown_until = None \/ t >= d.cooldown_until

\* C15: no qualifying occurrence is masked.  After a NORMAL frame, whenever
\* detect() gets past the cooldown check with a buffer full of one violation
\* label L and no violation has been returned since that NORMAL frame, the
\* occurrence of L is still pending: L is tracked, it is not marked reported
\* and its timer has run for less than violation_duration, so that the run of
\* L, going on, ends in a violation.
C15_NoOccurrenceMasked ==
    (/\ NotSuppressed
     /\ last_normal # None
     /\ DominantOf(det) # None
     /\ (last_emit = None \/ last_emit <= last_normal))
    => (/\ det.current_violation_label = DominantOf(det)
        /\ ~det.violation_reported
        /\ now - det.violation_start_time < det.violation_duration)

\* C16: on a detect() call outside the cooldown (a call at exactly
\* cooldown_until included) a violation is returned exactly when the buffer
\* is full of the tracked label, the occurrence is not yet reported and
\* now - start >= violation_duration; the call then sets reported, sets
\* cooldown_until = now + 2.0 and returns the dominant label with the frame's
\* confidence; and a call at exactly cooldown_until does the tracking update.
C16_EmitExactlyWhenDue ==
    [][(last_op' = "detect" /\ CooldownOver(det, now'))
       => (/\ ret'.is_violation <=>
                 (/\ BufferFull(det')
                  /\ DominantOf(det') # None
                  /\ DominantOf(det') = det.current_violation_label
                  /\ ~det.violation_reported
                  /\ now' - det.violation_start_time >= det.violation_duration)
           /\ ret'.is_violation =>
                 (/\ det'.violation_reported
                  /\ det'.cooldown_until = now' + COOLDOWN_SECONDS
                  /\ det'.current_violation_label = det.current_violation_label
                  /\ det'.violation_start_time = det.violation_start_time
                  /\ ret'.label = DominantOf(det')
                  /\ ret'.confidence \in ConfidencesOf(Frames, ret'.label))
           /\ (BufferFull(det') /\ now' = det.cooldown_until) =>
                 det'.current_violation_label = DominantOf(det'))]_vars

\* the second violation of a detector, returned at exactly start +
\* violation_duration for a tracking that started at exactly the end of the
\* first violation's cooldown
C16_Witness ==
    /\ last_op = "detect"
    /\ ret.is_violation
    /\ emitted = 2
    /\ det.violation_start_time = Epoch + VIOLATION_DURATION_SECONDS + COOLDOWN_SECONDS
    /\ now - det.violation_start_time = det.violation_duration

\* every label of the buffer is the same
Uniform(buf) == \A i \in 1..Len(buf) : buf[i] = buf[1]

\* C17: the dominant behaviour is set exactly when the buffer holds N labels
\* that are all the same non-NORMAL label, and it is that label; a buffer
\* with a NORMAL label or with two different labels has none.
C17_DominantIffUniform ==
    /\ DominantOf(det) # None <=>
          (/\ Len(det.frame_buffer) = det.violation_threshold
           /\ Uniform(det.frame_buffer)
           /\ det.frame_buffer[1] # NORMAL)
    /\ DominantOf(det) # None => DominantOf(det) = det.frame_buffer[1]

\* a full buffer without NORMAL in which one violation label holds four of the
\* five places
C17_Witness ==
    /\ last_op = "detect"
    /\ Len(det.frame_buffer) = VIOLATION_FRAME_COUNT
    /\ Count(det.frame_buffer, NORMAL) = 0
    /\ Count(det.frame_buffer, LOOKING_LEFT) = VIOLATION_FRAME_COUNT - 1
    /\ DominantOf(det) = None

\* C18: on a detect() call outside the cooldown whose dominant label exists
\* and differs from the tracked label (none tracked, or another label), the
\* dominant label becomes the tracked label with start = now and reported =
\* false, and no violation is returned by that call.
C18_NewLabelStartsTracking ==
    [][(/\ last_op' = "detect"
        /\ CooldownOver(det, now')
        /\ BufferFull(det')
        /\ DominantOf(det') # None
        /\ DominantOf(det') # det.current_violation_label)
       => (/\ det'.current_violation_label = DominantOf(det')
           /\ det'.violation_start_time = now'
           /\ ~det'.violation_reported
           /\ ~ret'.is_violation
           /\ det'.cooldown_until = det.cooldown_until)]_vars

\* without any NORMAL frame, a label starts being tracked after a violation
\* was returned and its cooldown ran out
C18_Witness ==
    /\ last_op = "detect"
    /\ last_normal = None
    /\ emitted = 1
    /\ det.cooldown_until # None
    /\ det.current_violation_label = LOOKING_LEFT
    /\ det.violation_start_time = now
    /\ ~det.violation_reported

\* C19: on a detect() call outside the cooldown with a full buffer that has
\* no dominant label, the tracked label and the start time are cleared,
\* reported is false, no violation is returned and cooldown_until is left as
\* it was.
C19_NoDominantClearsTracking ==
    [][(/\ last_op' = "detect"
        /\ CooldownOver(det, now')
        /\ BufferFull(det')
        /\ DominantOf(det') = None)
       => (/\ det'.current_violation_label = None
           /\ det'.violation_start_time = None
           /\ ~det'.violation_reported
           /\ ~ret'.is_violation
           /\ det'.cooldown_until = det.cooldown_until)]_vars

\* the tracking of a reported occurrence was cleared after its cooldown, and
\* the cooldown time is still the one the violation set
C19_Witness ==
    /\ last_op = "detect"
    /\ BufferFull(det)
    /\ DominantOf(det) = None
    /\ det.current_violation_label = None
    /\ ~det.violation_reported
    /\ last_emit # None
    /\ det.cooldown_until = last_emit + COOLDOWN_SECONDS
    /\ now >= det.cooldown_until

\* BehaviorLabel
BehaviorLabels == {NORMAL, LOOKING_LEFT, LOOKING_RIGHT, HEAD_DOWN, TALKING}

\* the last n elements of a sequence
LastN(seq, n) ==
    IF Len(seq) <= n THEN seq ELSE SubSeq(seq, Len(seq) - n + 1, Len(seq))

\* C20: after k detect() calls since construction or reset the buffer holds
\* min(k, N) labels, and each call, a call suppressed by the cooldown too,
\* appends the one label of its frame and evicts the oldest label when the
\* buffer was full.
C20_BufferHoldsLastNLabels ==
    /\ [](/\ Len(det.frame_buffer) = calls
          /\ Len(det.frame_buffer) <= VIOLATION_FRAME_COUNT)
    /\ [][last_op' = "detect" =>
            \E l \in BehaviorLabels :
                /\ det'.frame_buffer =
                       LastN(Append(det.frame_buffer, l), VIOLATION_FRAME_COUNT)
                /\ run_label' \in {l, Mixed}
                /\ (l = NORMAL) => (last_normal' = now')
                /\ (l # NORMAL) => (last_normal' = last_normal)]_vars

\* a call inside the cooldown has pushed a label other than the reported one
\* onto a full buffer
C20_Witness ==
    /\ last_op = "detect"
    /\ in_cooldown(det, now)
    /\ det.violation_reported
    /\ Len(det.frame_buffer) = VIOLATION_FRAME_COUNT
    /\ det.frame_buffer[VIOLATION_FRAME_COUNT] # det.current_violation_label
    /\ det.frame_buffer[1] = det.current_violation_label

\* C21: in every reachable state of a detector the tracked label is None
\* exactly when the start time is None, the tracked label is never NORMAL, a
\* set reported flag comes with a tracked label and a set cooldown_until, and
\* cooldown_until changes only in a detect() that emits or in reset()
C21_TrackingFieldsConsistent ==
    /\ [](/\ (det.current_violation_label = None) <=> (det.violation_start_time = None)
          /\ det.current_violation_label # NORMAL
          /\ det.violation_reported =>
                (det.current_violation_label # None /\ det.cooldown_until # None))
    /\ [][det'.cooldown_until # det.cooldown_until =>
             \/ last_op' = "detect" /\ ret'.is_violation
             \/ last_op' = "reset"]_vars

\* an occurrence reported, still tracked after its cooldown ran out
C21_Witness ==
    /\ det.violation_reported
    /\ det.current_violation_label \in {LOOKING_LEFT, HEAD_DOWN}
    /\ det.violation_start_time # None
    /\ det.cooldown_until # None
    /\ now >= det.cooldown_until

\* C22: a violation returned by detect() carries a label that is not NORMAL
\* and is the label classified for the frame of the call and every label in
\* the buffer, with the confidence classified for that frame; a call that
\* returns no violation returns neither a label nor a confidence
C22_ViolationCarriesFrameLabel ==
    last_op = "detect" =>
        IF ret.is_violation
        THEN /\ ret.label \in {LOOKING_LEFT, LOOKING_RIGHT, HEAD_DOWN, TALKING}
             /\ ret.label = out.label
             /\ \A i \in 1..Len(det.frame_buffer) : det.frame_buffer[i] = ret.label
             /\ Len(det.frame_buffer) = det.violation_threshold
             /\ ret.confidence = out.confidence
             /\ out.confidence # None
        ELSE ret.label = None /\ ret.confidence = None

\* a HEAD_DOWN violation returned with the confidence of its last frame
C22_Witness ==
    /\ last_op = "detect"
    /\ ret.is_violation
    /\ ret.label = HEAD_DOWN
    /\ out.label = HEAD_DOWN
    /\ ret.confidence = 40

\* C27: get_current_state() leaves the detector as it is; it returns
\* "No data" for an empty buffer, else the message of the newest buffered
\* label, with the elapsed/required suffix exactly when a label is tracked,
\* not reported, and less than violation_duration has elapsed
C27_StateDescriptionReadOnly ==
    /\ [][last_op' = "get_current_state" => det' = det]_vars
    /\ [](last_op = "get_current_state" =>
            IF det.frame_buffer = <<>>
            THEN shown.text = "No data" /\ shown.timer = <<>>
            ELSE /\ shown.text =
                        VIOLATION_MESSAGES[det.frame_buffer[Len(det.frame_buffer)]]
                 /\ IF /\ det.current_violation_label # None
                       /\ ~det.violation_reported
                       /\ det.violation_duration
                              - (shown.at - det.violation_start_time) > 0
                    THEN shown.timer = <<shown.at - det.violation_start_time,
                                         det.violation_duration>>
                    ELSE shown.timer = <<>>)

\* a tracked label shown with its timer one second into the tracking
C27_Witness ==
    /\ last_op = "get_current_state"
    /\ shown.text = "Looking Left"
    /\ shown.timer = <<TicksPerSecond, VIOLATION_DURATION_SECONDS>>
    /\ det.current_violation_label = LOOKING_LEFT

\* C23: with pitch <= 20 and a gaze (h, v), predict() returns LOOKING_LEFT if
\* h < -0.25, else LOOKING_RIGHT if h > 0.25, else HEAD_DOWN if v < -0.3, else
\* what the model predicts; without a gaze it returns what the model
\* predicts.  The comparisons are strict and the horizontal rules come first.
C23_GazeRulesStrictAndOrdered ==
    (out.op = "predict" /\ clf.model # None /\ inp.features.pitch <= 20) =>
        LET g == inp.iris_gaze
            m == model_predict(inp.features, inp.proba)
        IN  IF g # <<>> /\ g[1] < -25
            THEN out.exc = NoExc /\ out.label = LOOKING_LEFT
            ELSE IF g # <<>> /\ g[1] > 25
            THEN out.exc = NoExc /\ out.label = LOOKING_RIGHT
            ELSE IF g # <<>> /\ g[2] < -30
            THEN out.exc = NoExc /\ out.label = HEAD_DOWN
            ELSE out.exc = m.exc /\ out.label = m.label

\* pitch on its threshold, a gaze to the right and down: LOOKING_RIGHT
C23_Witness ==
    /\ out.op = "predict"
    /\ clf.model # None
    /\ inp.features.pitch = 20
    /\ inp.iris_gaze = <<30, -40>>
    /\ out.label = LOOKING_RIGHT

\* C24 as stated: predict_with_confidence() always reads the confidence from
\* the model's probability array at the index of the final label, whatever
\* decided the label and however many classes the model has, and the
\* confidence lies in [0, 1]
C24_ConfidenceAlwaysFromArray ==
    (out.op = "predict_with_confidence" /\ out.exc = NoExc) =>
        /\ out.label < Len(inp.proba)
        /\ out.confidence = inp.proba[out.label + 1]
        /\ out.confidence \in 0..100

\* C24 amended: the confidence is the entry of the probability array at the
\* index of the final label when the array has such an entry, also under a
\* rule override, and the constant 0.9 when the label is beyond the classes
\* the model has; it lies in [0, 1] either way
C24_ConfidenceFromArrayOrDefault ==
    (out.op = "predict_with_confidence" /\ out.exc = NoExc) =>
        /\ out.confidence =
              IF out.label < Len(inp.proba)
              THEN inp.proba[out.label + 1]
              ELSE 90
        /\ out.confidence \in 0..100

\* the pitch rule says HEAD_DOWN (3) to a model of three classes: 0.9
C24_Witness ==
    /\ out.op = "predict_with_confidence"
    /\ out.exc = NoExc
    /\ inp.features.pitch = 25
    /\ Len(inp.proba) = 3
    /\ out.label = HEAD_DOWN
    /\ out.confidence = DefaultConfidence

\* the gaze calculate_iris_gaze returns for a face mesh without iris
\* landmarks, whatever the eyes do
SentinelGaze == calculate_iris_gaze(Landmarks(468, 0, <<-30, 0>>, <<>>)).gaze

\* C25: for every feature vector, classifying with the gaze the estimator
\* returns for insufficient landmarks, (0, 0), gives the label, confidence and
\* exception of classifying with no gaze: the sentinel neither triggers nor
\* suppresses a rule
C25_SentinelGazeIsNoGaze ==
    (out.op \in {"predict", "predict_with_confidence"} /\ inp.iris_gaze = SentinelGaze) =>
        LET p == predict(clf, inp.features, <<>>, inp.proba)
            c == predict_with_confidence(clf, inp.features, <<>>, inp.proba)
        IN  IF out.op = "predict"
            THEN out.exc = p.exc /\ out.label = p.label
            ELSE out.exc = c.exc /\ out.label = c.label /\ out.confidence = c.confidence

\* the sentinel passed with a vector the model calls LOOKING_RIGHT
C25_Witness ==
    /\ out.op = "predict_with_confidence"
    /\ inp.iris_gaze = <<0, 0>>
    /\ inp.features.pitch = 0
    /\ out.label = LOOKING_RIGHT
    /\ out.confidence = 60

C28_FlaggedIffCountExceedsMax ==
    /\ [](\A u \in Students :
            exam.participants[u].joined =>
                /\ exam.participants[u].violation_count = exam.violations[u]
                /\ exam.participants[u].is_flagged
                      <=> exam.participants[u].violation_count > exam.max_violations)
    /\ [][\A u \in Students :
            /\ exam'.violations[u] # exam.violations[u] =>
                  /\ exam'.violations[u] = exam.violations[u] + 1
                  /\ exam'.participants[u].violation_count
                        = exam.participants[u].violation_count + 1
            /\ exam.participants[u].is_flagged => exam'.participants[u].is_flagged]_vars

\* C29: a student's StudentSession.is_online is true exactly while
\* active_connections holds, under the student's id, a websocket that is
\* open, whatever the order of connects, messages and disconnects
C29_OnlineIffOpenRegistered ==
    \A s \in StudentIds :
        manager.sessions[s].exists =>
            (manager.sessions[s].is_online
                <=> /\ manager.active_connections[s] # NoConnection
                    /\ manager.handlers[manager.active_connections[s]].pc = "serving")

\* a step in which connect() was called
ConnectAttempted ==
    ws' # ws /\ ws'.step.by \in {"run", "reconnect_loop"}

\* C30: reconnect_attempts never exceeds max_reconnect_attempts (10); it
\* grows by one only where an attempt of reconnect_loop failed; every
\* successful connect sets it to 0; and once it is 10 no connection attempt
\* is made for the rest of the run
C30_ReconnectAttemptsBounded ==
    /\ [](ws.reconnect_attempts \in 0..10)
    /\ [][ws'.reconnect_attempts > ws.reconnect_attempts =>
             /\ ws'.step.by = "reconnect_loop"
             /\ ws'.step.outcome # "connected"
             /\ ws'.reconnect_attempts
                   = (IF ws'.step.outcome = "refused" THEN ws.reconnect_attempts ELSE 0) + 1]_vars
    /\ [][(ConnectAttempted /\ ws'.step.outcome = "connected") =>
             ws'.reconnect_attempts = 0 /\ ws'.is_connected]_vars
    /\ [][ws.reconnect_attempts = 10 => ~ConnectAttempted]_vars

\* ten attempts of reconnect_loop have failed and the loop goes on running
C30_Witness ==
    /\ ws.reconnect_attempts = 10
    /\ ws.run = "gathering"
    /\ ws.should_run
    /\ ~ws.is_connected
    /\ ws.step = [by |-> "reconnect_loop", outcome |-> "refused"]

====
